---- MODULE Spec2Model ----
(***************************************************************************)
(* Hermes: task lifecycle pipeline.                                        *)
(*                                                                         *)
(*   SpecMonitor   ProcessHealthMonitor.execute_with_health_monitoring     *)
(*                 supervising ClaudeExecutor.execute_async                *)
(*   SpecQueue     scheduler.TaskQueue                                     *)
(*   SpecPipeline  HermesApplication._process_task and its status writes   *)
(*   SpecMail      IMAPListener and EmailChannel over one inbox, with the    *)
(*                 mail half of _poll_all_channels, across restarts          *)
(*   SpecChat      TelegramChannel with the chat half of _poll_all_channels, *)
(*                 across restarts                                           *)
(*   SpecRestart   run() started over the state file an earlier run left      *)
(*   SpecFile      the state snapshot file under its writers and readers      *)
(*   SpecSession   ConversationContext and Session message lists              *)
(*   SpecMemory    LongTermMemory: entries, purge and search                  *)
(*   SpecRouter    the task ids the message handlers give                     *)
(*   SpecLock      TaskQueue._lock under to_dict and get_stats                *)
(*                                                                         *)
(* Time is in seconds.  Strings stand for the Python values the code       *)
(* compares: the error texts are abbreviated to tags.                      *)
(***************************************************************************)
EXTENDS Integers, Sequences, FiniteSets, TLC

VARIABLES
    \* ---- health monitor / executor ----
    now,                \* time.time() - start_time
    task_type,          \* TaskType inferred from the prompt
    chat_id,            \* task_info["chat_id"]
    notify_enabled,     \* channel_adapter and config.enable_notification
    mon_pc,             \* position of execute_with_health_monitoring
    exec_task,          \* asyncio task wrapping executor.execute_async
    exec_result,        \* result held by exec_task when it finished
    proc,               \* the CLI subprocess run by subprocess.run in the pool thread
    thread_result,      \* what ClaudeExecutor.execute returned in the pool thread
    out_len,            \* bytes the subprocess has written to stdout
    wait_start,         \* time at which the current wait_for began
    last_activity_time, last_output_len, check_count, inactive_periods,
    mon_log,            \* notifications sent and cancels issued, in order
    mon_result,         \* MonitoredResult returned by the monitor
    \* history of the run, for the properties
    last_out_time,      \* time of the latest output of the subprocess
    grew,               \* output grew in the current heartbeat window
    steady,             \* output grew in every heartbeat window so far
    cancel_time,        \* time at which the monitor cancelled exec_task, -1 if never
    out_at_cancel,      \* out_len at that time
    \* ---- scheduler.TaskQueue ----
    q_queue,            \* _queue: QueueItems in service order
    q_processing,       \* _processing: a QueueItem or NoItem
    q_completed,        \* _completed
    q_failed,           \* _failed
    q_status,           \* TaskInfo.status of each task object
    q_adds,             \* number of add() calls accepted so far
    q_returned,         \* what the latest get_next() returned
    \* ---- HermesApplication task pipeline ----
    st_order,           \* state.task_queue: task ids in the order they were added
    st_status,          \* status of each task in the State Store
    st_error,           \* record_error() was called
    p_pc,               \* position of the handler of the current message
    p_task,             \* task_info being processed
    p_channel,          \* metadata["channel"] of each task
    p_current,          \* current_task picked by _process_task
    p_replies,          \* _reply_to_user calls, in order
    p_exec,             \* executor invocations, in order
    st_refined,         \* the task has a non-empty refined_prompt
    p_refine,           \* calls of refiner.refine, in order
    p_info,             \* per message: what the LLMs and the CLI run answered
    p_feedback,         \* 'feedback' of the _process_task that is running: the text of
                        \* the understanding feedback it has sent
    p_chat,             \* metadata["tg_message"].metadata["chat_id"] of each task
    st_last_status,     \* state.last_status, written by update_status
    run_cycle,          \* parity of the iterations of the polling loop of run()
    \* ---- channel adapters and the servers they poll ----
    srv_mail,           \* mail server: per [Task] message "none", "unseen" or "seen"
    imap_uids,          \* IMAPListener._processed_uids
    imap_conn,          \* IMAPListener.mailbox is set
    ech_ids,            \* EmailChannel._processed_ids
    ech_conn,           \* EmailChannel.mailbox is set
    tg_pending,         \* chat server: updates not yet confirmed by an offset
    tg_kind,            \* per update: "none" (not sent yet), "text", "skill", "ignored"
    tg_returned,        \* chat server: the updates a getUpdates has returned so far
    tg_offset,          \* TelegramChannel.offset
    ch_marked,          \* per adapter, the messages mark_processed was called for
    ch_ever,            \* per adapter, the messages a receive has returned
    ch_last,            \* the latest receive or poll call and what it returned
    ch_done,            \* messages an adapter the engine polls has recorded as processed
    ch_tasks,           \* number of TaskInfos the handlers built from each message
    ch_restarts,        \* restarts of the engine so far
    \* ---- the state snapshot file and the programs that write it ----
    f_state,            \* content of state/state.json
    f_backup,           \* content of the backup file of cleanup_state.py
    cl_pc,              \* position of cleanup_state()
    cl_old,             \* old_data of cleanup_state()
    cl_file,            \* the file cleanup_state() holds open for writing
    cl_runs,            \* runs of cleanup_state.py so far
    sm_saves,           \* snapshots the State Store has written
    f_reads,            \* what each read of the state file observed, in order
    \* ---- conversation memory ----
    cx_max,             \* ConversationContext.max_messages
    cx_messages,        \* ConversationContext.messages
    cx_count,           \* ConversationContext.message_count
    ses_messages,       \* Session.messages
    \* ---- long-term memory ----
    lm_now,             \* datetime.now(), in days
    lm_ttl,             \* LongTermMemory._default_ttl_days
    lm_entries,         \* FileMemoryStore._entries, in order of creation
    lm_added,           \* entries created so far
    lm_purged,          \* the time of the latest cleanup_expired(), -1 before the first
    lm_found,           \* what the latest search_memories() returned
    lm_search,          \* the latest search_memories() call with the time of the purge
                        \* that preceded it, NoSearch before the first
    \* ---- task identifiers given by the message handlers ----
    rt_now,             \* datetime.now(), in half seconds
    rt_uuids,           \* uuid4 values drawn so far
    rt_handling,        \* a handler has built its TaskInfo and is still running
    rt_tasks,           \* the TaskInfos built, one per inbound message, in order
    \* ---- the lock of the task queue ----
    lk_owner,           \* the thread that holds TaskQueue._lock, "none" when it is free
    th_pc,              \* per thread: where it is in to_dict() or get_stats()
    th_calls,           \* per thread: calls made so far
    th_returned         \* per thread: calls that have returned

monVars == <<now, task_type, chat_id, notify_enabled, mon_pc, exec_task, exec_result,
             proc, thread_result, out_len, wait_start, last_activity_time,
             last_output_len, check_count, inactive_periods, mon_log, mon_result,
             last_out_time, grew, steady, cancel_time, out_at_cancel>>

queueVars == <<q_queue, q_processing, q_completed, q_failed, q_status, q_adds, q_returned>>

pipeVars == <<st_order, st_status, st_error, p_pc, p_task, p_channel, p_current,
              p_replies, p_exec, st_refined, p_refine, p_info, p_feedback, p_chat,
              st_last_status, run_cycle>>

chanVars == <<srv_mail, imap_uids, imap_conn, ech_ids, ech_conn, tg_pending, tg_kind,
              tg_returned,
              tg_offset, ch_marked, ch_ever, ch_last, ch_done, ch_tasks, ch_restarts>>

fileVars == <<f_state, f_backup, cl_pc, cl_old, cl_file, cl_runs, sm_saves, f_reads>>

sessVars == <<cx_max, cx_messages, cx_count, ses_messages>>

memVars == <<lm_now, lm_ttl, lm_entries, lm_added, lm_purged, lm_found, lm_search>>

routeVars == <<rt_now, rt_uuids, rt_handling, rt_tasks>>

lockVars == <<lk_owner, th_pc, th_calls, th_returned>>

extVars == <<memVars, routeVars, lockVars>>

auxVars == <<fileVars, sessVars, extVars>>

vars == <<monVars, queueVars, pipeVars, chanVars, auxVars>>

-----------------------------------------------------------------------------
(* Bounds of the model *)
MaxOut == 3
MaxTime == 640
MaxAdds == 3
MaxTasks == 3
MaxMail == 2
MaxUpdates == 2
MaxRestarts == 1
MaxTasksPerMessage == 2
MaxSaves == 2
MaxReads == 2
MaxCleanups == 2
MaxContextAdds == 4
MaxSessionAdds == 4
MaxEntries == 2
MaxDays == 3
MaxMessages == 3
MaxClock == 5
MaxCalls == 3

(* Program constants *)
HeartbeatInterval == 30
ExecutorTimeout == 600
MaxInactivePeriods == 2
MaxRetries == 3
MaxContextTasks == 5

TimeStep == HeartbeatInterval \div 3

None == "None"
NoChat == 0
ChatIds == {42}

TaskTypes == {"file_operation", "code_generation", "analysis", "refactoring",
              "search", "unknown"}

Thresholds == [t \in TaskTypes |->
                 CASE t = "file_operation" -> 60
                   [] t = "code_generation" -> 120
                   [] t = "analysis" -> 180
                   [] t = "refactoring" -> 240
                   [] t = "search" -> 90
                   [] OTHER -> 120]

ActivityThreshold(tt) ==
    IF tt \in DOMAIN Thresholds THEN Thresholds[tt] ELSE Thresholds["unknown"]

Max(a, b) == IF a >= b THEN a ELSE b

-----------------------------------------------------------------------------
(* ClaudeExecutor *)

\* execute(): "timeout = timeout if timeout is not None else self.config.timeout"
EffectiveTimeout(timeout) == IF timeout # None THEN timeout ELSE ExecutorTimeout

\* the timeout argument the monitor passes to execute_async
MonitorTimeoutArg == None

NoResult == [kind |-> "none"]

\* the error field of a result: a tag for the text and the seconds it names
Err(tag, seconds) == [tag |-> tag, seconds |-> seconds]
NoError == Err("none", 0)

\* ExecutionResult of a subprocess that exited with code rc after writing n bytes
ExitResult(rc, n) ==
    [kind |-> "result", success |-> (rc = 0), stdout_len |-> n, exit_code |-> rc,
     error |-> NoError]

\* ExecutionResult built in "except subprocess.TimeoutExpired"
TimeoutResult ==
    [kind |-> "result", success |-> FALSE, stdout_len |-> 0, exit_code |-> -1,
     error |-> Err("Command timed out", 0)]

-----------------------------------------------------------------------------
(* asyncio *)

Done(t) == t \in {"finished", "cancelled"}

\* a cancel that the task swallows
TaskCancelIgnored(t, p) == t

\* a cancel that takes effect only once the subprocess has stopped
TaskCancelWaitsForProcess(t, p) == IF t = "running" /\ p # "running" THEN "cancelled" ELSE t

\* Task.cancel() on the task awaiting loop.run_in_executor(...): the wrapping
\* future is cancelled at once, whatever the pool thread (p) is doing.
TaskCancel(t, p) == IF t = "running" THEN "cancelled" ELSE t

\* asyncio.wait_for(task, timeout) when the timeout elapses: it cancels the
\* task and raises TimeoutError once the task is done.
WaitForTimeout(t, p) ==
    LET c == TaskCancel(t, p)
    IN  [task |-> c, cancel_sent |-> TRUE, resumed |-> Done(c)]

-----------------------------------------------------------------------------
(* ProcessHealthMonitor *)

\* "len(exec_task.result().stdout) if exec_task.done() else last_output_len"
SampleOutputLen(t, r, last) == IF Done(t) /\ r.kind = "result" THEN r.stdout_len ELSE last

Unresponsive(periods, inactive_seconds, threshold) ==
    periods >= MaxInactivePeriods /\ inactive_seconds >= threshold

\* _send_health_alert / _send_task_interrupted_notification
Notification(kind, enabled, chat) ==
    IF enabled /\ chat # NoChat THEN <<[ev |-> kind, chat |-> chat]>> ELSE <<>>

CancelEvent == [ev |-> "cancel", chat |-> NoChat]

\* _create_interrupted_result
CreateInterruptedResult(duration, reason) ==
    [kind |-> "monitored", success |-> FALSE, stdout_len |-> 0, exit_code |-> 0,
     error |-> reason, duration |-> duration]

\* the reason text of line 344, which names the inactive seconds
NoResponse(seconds) == Err("no_response", seconds)

\* lines 373-439: the result built after the loop
CollectedResult(t, r, duration) ==
    IF t = "finished" /\ r.kind = "result"
    THEN [kind |-> "monitored", success |-> r.success, stdout_len |-> r.stdout_len,
          exit_code |-> r.exit_code, error |-> r.error, duration |-> duration]
    ELSE [kind |-> "monitored", success |-> FALSE, stdout_len |-> 0, exit_code |-> 0,
          error |-> Err("task_interrupted", 0), duration |-> duration]

histVars == <<last_out_time, grew, steady>>
inputVars == <<task_type, chat_id, notify_enabled>>
loopVars == <<last_activity_time, last_output_len, check_count, inactive_periods>>

MonitorStart ==
    /\ now = 0
    /\ task_type \in TaskTypes
    /\ chat_id \in ChatIds \cup {NoChat}
    /\ notify_enabled \in BOOLEAN
    /\ mon_pc = "init"
    /\ exec_task = "none"
    /\ exec_result = NoResult
    /\ proc = "none"
    /\ thread_result = NoResult
    /\ out_len = 0
    /\ wait_start = 0
    /\ last_activity_time = 0
    /\ last_output_len = 0
    /\ check_count = 0
    /\ inactive_periods = 0
    /\ mon_log = <<>>
    /\ mon_result = NoResult
    /\ last_out_time = 0
    /\ grew = FALSE
    /\ steady = TRUE
    /\ cancel_time = -1
    /\ out_at_cancel = 0

\* lines 262-273: create the task; the pool thread starts subprocess.run
StartExecution ==
    /\ mon_pc = "init"
    /\ mon_pc' = "monitoring"
    /\ exec_task' = "running"
    /\ proc' = "running"
    /\ wait_start' = now
    /\ UNCHANGED <<now, exec_result, thread_result, out_len, mon_log, mon_result,
                   cancel_time, out_at_cancel>>
    /\ UNCHANGED <<inputVars, loopVars, histVars>>
    /\ UNCHANGED <<queueVars, pipeVars, chanVars, auxVars>>

\* the subprocess writes to its stdout pipe
SubprocessOutput ==
    /\ proc = "running"
    /\ out_len < MaxOut
    /\ out_len' = out_len + 1
    /\ last_out_time' = now
    /\ grew' = TRUE
    /\ UNCHANGED <<now, mon_pc, exec_task, exec_result, proc, thread_result, wait_start,
                   mon_log, mon_result, steady, cancel_time, out_at_cancel>>
    /\ UNCHANGED <<inputVars, loopVars>>
    /\ UNCHANGED <<queueVars, pipeVars, chanVars, auxVars>>

\* the subprocess exits: subprocess.run returns, execute() builds the result
\* and the future of run_in_executor completes the task if it is still waiting
SubprocessExit ==
    /\ proc = "running"
    /\ \E rc \in {0, 1} :
         /\ proc' = "exited"
         /\ thread_result' = ExitResult(rc, out_len)
         /\ IF exec_task = "running"
            THEN exec_task' = "finished" /\ exec_result' = ExitResult(rc, out_len)
            ELSE UNCHANGED <<exec_task, exec_result>>
    /\ UNCHANGED <<now, mon_pc, out_len, wait_start, mon_log, mon_result,
                   cancel_time, out_at_cancel>>
    /\ UNCHANGED <<inputVars, loopVars, histVars>>
    /\ UNCHANGED <<queueVars, pipeVars, chanVars, auxVars>>

\* subprocess.run(timeout=...) expires: it kills the child and raises
\* TimeoutExpired, which execute() turns into "Command timed out"
ExecutorTimeoutExpired ==
    /\ proc = "running"
    /\ now >= EffectiveTimeout(MonitorTimeoutArg)
    /\ proc' = "timed_out"
    /\ thread_result' = TimeoutResult
    /\ IF exec_task = "running"
       THEN exec_task' = "finished" /\ exec_result' = TimeoutResult
       ELSE UNCHANGED <<exec_task, exec_result>>
    /\ UNCHANGED <<now, mon_pc, out_len, wait_start, mon_log, mon_result,
                   cancel_time, out_at_cancel>>
    /\ UNCHANGED <<inputVars, loopVars, histVars>>
    /\ UNCHANGED <<queueVars, pipeVars, chanVars, auxVars>>

\* lines 284-347: the loop body after wait_for returned or raised TimeoutError
\* at time now; t is the state of exec_task, and log, ctime, oac are the
\* cancel record as wait_for left it
LoopBody(t, log, ctime, oac) ==
    /\ check_count' = check_count + 1
    /\ IF Done(t)
       THEN \* "if exec_task.done(): break"
            /\ mon_pc' = "collect"
            /\ exec_task' = t
            /\ mon_log' = log
            /\ cancel_time' = ctime
            /\ out_at_cancel' = oac
            /\ UNCHANGED <<last_activity_time, last_output_len, inactive_periods,
                           mon_result, wait_start>>
       ELSE LET cur     == SampleOutputLen(t, exec_result, last_output_len)
                hasNew  == cur > last_output_len
                lat     == IF hasNew THEN now ELSE last_activity_time
                periods == IF hasNew THEN 0 ELSE inactive_periods + 1
                secs    == now - lat
            IN  /\ last_activity_time' = lat
                /\ last_output_len' = cur
                /\ inactive_periods' = periods
                /\ IF Unresponsive(periods, secs, ActivityThreshold(task_type))
                   THEN LET c == TaskCancel(t, proc)
                        IN  /\ exec_task' = c
                            /\ mon_log' = log
                                 \o Notification("alert", notify_enabled, chat_id)
                                 \o <<CancelEvent>>
                                 \o Notification("interrupted", notify_enabled, chat_id)
                            /\ cancel_time' = now
                            /\ out_at_cancel' = out_len
                            /\ UNCHANGED wait_start
                            /\ IF Done(c)
                               THEN /\ mon_pc' = "returned"
                                    /\ mon_result' = CreateInterruptedResult(now, NoResponse(secs))
                               ELSE /\ mon_pc' = "await_cancelled"
                                    /\ UNCHANGED mon_result
                   ELSE /\ mon_pc' = "monitoring"
                        /\ exec_task' = t
                        /\ wait_start' = now
                        /\ mon_log' = log
                        /\ cancel_time' = ctime
                        /\ out_at_cancel' = oac
                        /\ UNCHANGED mon_result

\* lines 276-283: the heartbeat interval elapses inside wait_for
HeartbeatElapsed ==
    /\ mon_pc = "monitoring"
    /\ exec_task = "running"
    /\ now >= wait_start + HeartbeatInterval
    /\ LET w     == WaitForTimeout(exec_task, proc)
           log   == IF w.cancel_sent THEN Append(mon_log, CancelEvent) ELSE mon_log
           ctime == IF w.cancel_sent THEN now ELSE cancel_time
           oac   == IF w.cancel_sent THEN out_len ELSE out_at_cancel
       IN  IF w.resumed
           THEN LoopBody(w.task, log, ctime, oac)
           ELSE \* wait_for keeps waiting for the cancelled task to finish
                /\ mon_pc' = "in_wait_for"
                /\ exec_task' = w.task
                /\ mon_log' = log
                /\ cancel_time' = ctime
                /\ out_at_cancel' = oac
                /\ UNCHANGED <<loopVars, mon_result, wait_start>>
    /\ UNCHANGED <<now, exec_result, proc, thread_result, out_len>>
    /\ UNCHANGED <<inputVars, histVars>>
    /\ UNCHANGED <<queueVars, pipeVars, chanVars, auxVars>>

\* the awaited exec_task is done: wait_for returns (line 279) or, after the
\* cancel of line 324, "await exec_task" returns (lines 335-347)
MonitorResume ==
    /\ Done(exec_task)
    /\ \/ /\ mon_pc \in {"monitoring", "in_wait_for"}
          /\ LoopBody(exec_task, mon_log, cancel_time, out_at_cancel)
       \/ /\ mon_pc = "await_cancelled"
          /\ mon_pc' = "returned"
          /\ mon_result' = CreateInterruptedResult(now,
                               NoResponse(cancel_time - last_activity_time))
          /\ UNCHANGED <<exec_task, mon_log, cancel_time, out_at_cancel, wait_start>>
          /\ UNCHANGED loopVars
    /\ UNCHANGED <<now, exec_result, proc, thread_result, out_len>>
    /\ UNCHANGED <<inputVars, histVars>>
    /\ UNCHANGED <<queueVars, pipeVars, chanVars, auxVars>>

\* lines 373-439: after the loop, build the MonitoredResult and return it
CollectResult ==
    /\ mon_pc = "collect"
    /\ mon_pc' = "returned"
    /\ mon_result' = CollectedResult(exec_task, exec_result, now)
    /\ UNCHANGED <<now, exec_task, exec_result, proc, thread_result, out_len,
                   wait_start, mon_log, cancel_time, out_at_cancel>>
    /\ UNCHANGED <<inputVars, loopVars, histVars>>
    /\ UNCHANGED <<queueVars, pipeVars, chanVars, auxVars>>

\* a step of the event loop that does not wait for time is enabled
MonitorCanStep ==
    \/ mon_pc \in {"init", "collect"}
    \/ mon_pc \in {"monitoring", "in_wait_for", "await_cancelled"} /\ Done(exec_task)

\* time passes while the subprocess runs; no timer is overrun
Tick ==
    /\ proc = "running"
    /\ ~MonitorCanStep
    /\ now < MaxTime
    /\ now + TimeStep <= EffectiveTimeout(MonitorTimeoutArg)
    /\ (mon_pc = "monitoring" /\ exec_task = "running")
          => now + TimeStep <= wait_start + HeartbeatInterval
    /\ now' = now + TimeStep
    /\ IF now' % HeartbeatInterval = 0
       THEN steady' = (steady /\ grew) /\ grew' = FALSE
       ELSE UNCHANGED <<steady, grew>>
    /\ UNCHANGED <<mon_pc, exec_task, exec_result, proc, thread_result, out_len,
                   wait_start, mon_log, mon_result, last_out_time, cancel_time,
                   out_at_cancel>>
    /\ UNCHANGED <<inputVars, loopVars>>
    /\ UNCHANGED <<queueVars, pipeVars, chanVars, auxVars>>

NextMonitor ==
    \/ StartExecution
    \/ SubprocessOutput
    \/ SubprocessExit
    \/ ExecutorTimeoutExpired
    \/ HeartbeatElapsed
    \/ MonitorResume
    \/ CollectResult
    \/ Tick

-----------------------------------------------------------------------------
(* scheduler.TaskQueue *)

TaskIds == {"T0", "T1", "T2"}

\* the TaskInfo objects offered to the queue
QueueTasks == {"T0", "T1"}
Priorities == {0, 1}

\* a QueueItem: its task, priority, retries, and added_at as the number of the
\* add() call that made it
NoItem == [id |-> "none", priority |-> 0, retries |-> 0, added |-> 0]

Terminal == {"completed", "failed", "cancelled"}

\* _find_task: looks in _processing and _queue only
FindTask(id) ==
    \/ q_processing # NoItem /\ q_processing.id = id
    \/ \E i \in 1..Len(q_queue) : q_queue[i].id = id

\* the loop of add(): the index before which an item of priority pr is inserted
InsertIndex(q, pr) ==
    IF \E i \in 1..Len(q) : pr < q[i].priority
    THEN CHOOSE i \in 1..Len(q) :
            /\ pr < q[i].priority
            /\ \A j \in 1..(i - 1) : ~(pr < q[j].priority)
    ELSE Len(q) + 1

InsertAt(q, i, item) == SubSeq(q, 1, i - 1) \o <<item>> \o SubSeq(q, i, Len(q))

RemoveAt(q, i) == SubSeq(q, 1, i - 1) \o SubSeq(q, i + 1, Len(q))

QueueStart ==
    /\ q_queue = <<>>
    /\ q_processing = NoItem
    /\ q_completed = <<>>
    /\ q_failed = <<>>
    /\ q_status = [t \in QueueTasks |-> "pending"]
    /\ q_adds = 0
    /\ q_returned = "none"

\* add(task, priority)
Add(id, pr) ==
    /\ q_adds < MaxAdds
    /\ q_adds' = q_adds + 1
    /\ IF FindTask(id)
       THEN UNCHANGED q_queue
       ELSE q_queue' = InsertAt(q_queue, InsertIndex(q_queue, pr),
                                [id |-> id, priority |-> pr, retries |-> 0,
                                 added |-> q_adds + 1])
    /\ UNCHANGED <<q_processing, q_completed, q_failed, q_status, q_returned>>
    /\ UNCHANGED <<monVars, pipeVars, chanVars, auxVars>>

\* a get_next() that takes the head of the queue whatever the slot holds
GetNextIgnoringSlot ==
    /\ IF q_queue = <<>>
       THEN /\ q_returned' = "none"
            /\ UNCHANGED <<q_queue, q_processing, q_status>>
       ELSE /\ q_processing' = Head(q_queue)
            /\ q_queue' = Tail(q_queue)
            /\ q_status' = [q_status EXCEPT ![Head(q_queue).id] = "processing"]
            /\ q_returned' = Head(q_queue).id
    /\ UNCHANGED <<q_completed, q_failed, q_adds>>
    /\ UNCHANGED <<monVars, pipeVars, chanVars, auxVars>>

\* get_next()
GetNext ==
    /\ IF q_processing # NoItem
       THEN /\ q_returned' = q_processing.id
            /\ UNCHANGED <<q_queue, q_processing, q_status>>
       ELSE IF q_queue = <<>>
       THEN /\ q_returned' = "none"
            /\ UNCHANGED <<q_queue, q_processing, q_status>>
       ELSE /\ q_processing' = Head(q_queue)
            /\ q_queue' = Tail(q_queue)
            /\ q_status' = [q_status EXCEPT ![Head(q_queue).id] = "processing"]
            /\ q_returned' = Head(q_queue).id
    /\ UNCHANGED <<q_completed, q_failed, q_adds>>
    /\ UNCHANGED <<monVars, pipeVars, chanVars, auxVars>>

\* complete(task_id, success)
Complete(id, success) ==
    /\ IF q_processing = NoItem \/ q_processing.id # id
       THEN UNCHANGED <<q_queue, q_processing, q_completed, q_failed, q_status>>
       ELSE LET item == q_processing
            IN  /\ q_processing' = NoItem
                /\ IF success
                   THEN /\ q_status' = [q_status EXCEPT ![id] = "completed"]
                        /\ q_completed' = Append(q_completed, item)
                        /\ UNCHANGED <<q_queue, q_failed>>
                   ELSE IF item.retries < MaxRetries
                   THEN /\ q_status' = [q_status EXCEPT ![id] = "pending"]
                        /\ q_queue' = <<[item EXCEPT !.retries = @ + 1]>> \o q_queue
                        /\ UNCHANGED <<q_completed, q_failed>>
                   ELSE /\ q_status' = [q_status EXCEPT ![id] = "failed"]
                        /\ q_failed' = Append(q_failed, item)
                        /\ UNCHANGED <<q_queue, q_completed>>
    /\ UNCHANGED <<q_adds, q_returned>>
    /\ UNCHANGED <<monVars, pipeVars, chanVars, auxVars>>

\* cancel(task_id)
Cancel(id) ==
    /\ IF q_processing # NoItem /\ q_processing.id = id
       THEN q_processing' = NoItem /\ UNCHANGED q_queue
       ELSE IF \E i \in 1..Len(q_queue) : q_queue[i].id = id
       THEN /\ q_queue' = RemoveAt(q_queue,
                             CHOOSE i \in 1..Len(q_queue) :
                                /\ q_queue[i].id = id
                                /\ \A j \in 1..(i - 1) : q_queue[j].id # id)
            /\ UNCHANGED q_processing
       ELSE UNCHANGED <<q_queue, q_processing>>
    /\ UNCHANGED <<q_completed, q_failed, q_status, q_adds, q_returned>>
    /\ UNCHANGED <<monVars, pipeVars, chanVars, auxVars>>

\* clear_completed()
ClearCompleted ==
    /\ q_completed # <<>>
    /\ q_completed' = <<>>
    /\ UNCHANGED <<q_queue, q_processing, q_failed, q_status, q_adds, q_returned>>
    /\ UNCHANGED <<monVars, pipeVars, chanVars, auxVars>>

\* clear_failed()
ClearFailed ==
    /\ q_failed # <<>>
    /\ q_failed' = <<>>
    /\ UNCHANGED <<q_queue, q_processing, q_completed, q_status, q_adds, q_returned>>
    /\ UNCHANGED <<monVars, pipeVars, chanVars, auxVars>>

\* the slot holds task t
InSlot(item, t) == item # NoItem /\ item.id = t

\* a list of items holds task t
Holds(q, t) == \E i \in 1..Len(q) : q[i].id = t

\* the calls made on the queue; a complete or cancel that finds no task
\* returns False and changes nothing, which is a stuttering step
NextQueue ==
    \/ \E id \in QueueTasks, pr \in Priorities : Add(id, pr)
    \/ GetNext
    \/ \E id \in QueueTasks, success \in BOOLEAN :
          InSlot(q_processing, id) /\ Complete(id, success)
    \/ \E id \in QueueTasks :
          (InSlot(q_processing, id) \/ Holds(q_queue, id)) /\ Cancel(id)
    \/ ClearCompleted
    \/ ClearFailed

-----------------------------------------------------------------------------
(* HermesApplication: the task pipeline of main.py over the State Store *)

Channels == {"telegram", "email"}

IntentTypes == {"new_task", "continue", "modify", "cancel", "clarification", "confirm"}

NoTask == "none"

TaskRank(t) == CASE t = "T0" -> 0 [] t = "T1" -> 1 [] OTHER -> 2

\* the state file read at start: empty, or holding a task that an earlier
\* run left in processing, with or without a refined prompt
Snapshots ==
    { [order |-> <<>>, status |-> [t \in TaskIds |-> "absent"],
       refined |-> [t \in TaskIds |-> FALSE]] }
    \cup { [order |-> <<"T0">>,
            status |-> [t \in TaskIds |-> IF t = "T0" THEN "processing" ELSE "absent"],
            refined |-> [t \in TaskIds |-> t = "T0" /\ r]] : r \in BOOLEAN }

\* state_manager.add_task(task_info)
AddTask(order, id) == Append(order, id)

\* state_manager.update_task_status(task_id, status)
UpdateTaskStatus(status, id, value) == [status EXCEPT ![id] = value]

\* "state.task_queue[-max_context_tasks:]"
ContextTasks(order) ==
    IF Len(order) <= MaxContextTasks THEN order
    ELSE SubSeq(order, Len(order) - MaxContextTasks + 1, Len(order))

\* lines 692-696: the first task of the context whose status is processing
CurrentTask(order, status) ==
    LET ctx == ContextTasks(order)
    IN  IF \E i \in 1..Len(ctx) : status[ctx[i]] = "processing"
        THEN ctx[CHOOSE i \in 1..Len(ctx) :
                   /\ status[ctx[i]] = "processing"
                   /\ \A j \in 1..(i - 1) : status[ctx[j]] # "processing"]
        ELSE NoTask

\* RefinerAgent.refine(self, raw_prompt, state): the parameters it accepts
RefineParameters == {"raw_prompt", "state"}

\* line 751: the arguments _process_task passes to refine
RefineArguments == {"raw_prompt", "state", "task_understanding"}

\* a call with a keyword the function does not declare raises TypeError
RefineRaises == ~(RefineArguments \subseteq RefineParameters)

\* what the Refiner's LLM answers for a prompt: clarifications with a
\* confidence below 0.6, or a prompt to execute (with or without text)
Refinements == {"escalate", "proceed", "proceed_empty"}

\* line 771: "refined.clarifications and refined.confidence < 0.6"
Escalates(ref) == ref = "escalate"

\* line 807: execute_with_health_monitoring is "async def" and is called
\* from the synchronous _process_task without await or an event loop
MonitorCallAwaited == FALSE

\* the chats users write to the bot from, named in the order in which their
\* first message arrives
FirstChat == 42
SecondChat == 43
TelegramChats == {FirstChat, SecondChat}

\* a reply that goes to the chat of the first task of the State Store
ReplyChatOfFirstTask(id) == IF st_order = <<>> THEN NoChat ELSE p_chat[st_order[1]]

\* lines 552-556: 'tg_msg.metadata.get("chat_id", tg_msg.sender)' of the
\* message kept in the task's own metadata
ReplyChat(id) == p_chat[id]

\* _reply_to_user: a Telegram task is answered through send_markdown, for
\* any other channel the text is only written to the log
ReplyOut(id, kind, out) ==
    [task |-> id, channel |-> p_channel[id], kind |-> kind, out |-> out,
     sent |-> (p_channel[id] = "telegram"),
     chat |-> IF p_channel[id] = "telegram" THEN ReplyChat(id) ELSE NoChat]

Reply(id, kind) == ReplyOut(id, kind, 0)

NoFeedback == [task |-> NoTask, warning |-> FALSE]

\* _build_understanding_feedback, lines 605-613: the text of the feedback
\* ends with the warning that a task is being executed whenever
\* should_interrupt is set
BuildUnderstandingFeedback(id, should_interrupt) ==
    [task |-> id, warning |-> should_interrupt]

\* one CLI run under subprocess.run: it exits with a code, having written
\* out bytes to stdout (blank: only white space) and a text to stderr, or
\* the timeout expires first
ProcOutcomes ==
    { o \in [kind : {"exit"}, rc : {0, 1}, out : {0, 2}, blank : BOOLEAN,
             stderr : {"", "timed out", "other"}] : o.blank => o.out > 0 }
    \cup { o \in [kind : {"timeout"}, rc : {-1}, out : {0, 2}, blank : BOOLEAN,
                  stderr : {""}] : o.blank => o.out > 0 }

NoRun == [kind |-> "none"]

\* ClaudeExecutor.execute: the ExecutionResult of the run; an error of "none"
\* is the unset error field
Execute(o) ==
    LET r == IF o.kind = "exit" THEN ExitResult(o.rc, o.out) ELSE TimeoutResult
    IN  [success |-> r.success, stdout_len |-> r.stdout_len,
         blank |-> (r.stdout_len > 0 /\ o.blank),
         stderr |-> (IF o.kind = "exit" THEN o.stderr ELSE ""),
         error |-> r.error.tag]

\* '"timed out" in text.lower() or "无响应" in text'
TimeoutLike(text) == text \in {"Command timed out", "timed out", "no_response"}

\* "exec_result.stdout and len(exec_result.stdout.strip()) > 0"
HasOutput(r) == r.stdout_len > 0 /\ ~r.blank

\* lines 1019-1029 (844-854): a timeout-like error with output becomes a success
PromoteTimeout(r) ==
    IF ~r.success /\ r.error # "none" /\ TimeoutLike(r.error) /\ HasOutput(r)
    THEN [r EXCEPT !.success = TRUE, !.error = "none"]
    ELSE r

\* lines 1035-1100 (860-925): the reply that reports the outcome
OutcomeReply(id, r) ==
    IF r.success
    THEN ReplyOut(id, "done", IF HasOutput(r) THEN r.stdout_len ELSE 0)
    ELSE LET error_msg == IF r.stderr # "" THEN r.stderr
                          ELSE IF r.error # "none" THEN r.error ELSE "failed"
         IN  IF TimeoutLike(error_msg) /\ r.stdout_len > 0
             THEN IF HasOutput(r) THEN ReplyOut(id, "partial", r.stdout_len)
                                  ELSE ReplyOut(id, "timeout", 0)
             ELSE ReplyOut(id, "failed", 0)

\* a confirm that always runs the original prompt
ConfirmPromptOriginal(refined) == "original"

\* line 725: "current_task.refined_prompt or current_task.original_prompt"
ConfirmPrompt(refined) == IF refined THEN "refined" ELSE "original"

\* lines 816-827: the monitor's result copied into an ExecutionResult
AsExecutionResult(m) ==
    [success |-> m.success, stdout_len |-> m.stdout_len, blank |-> FALSE,
     stderr |-> "", error |-> m.error.tag]

\* "COMPLETED if exec_result.success else FAILED"
OutcomeStatus(r) == IF r.success THEN "completed" ELSE "failed"

NoInfo ==
    [llm |-> "none", intent |-> "none", current |-> NoTask, refinement |-> "none",
     run |-> NoRun, exc |-> "none", returned |-> FALSE]

PipelineStart ==
    /\ \E snap \in Snapshots :
          st_order = snap.order /\ st_status = snap.status /\ st_refined = snap.refined
    /\ st_error = FALSE
    /\ p_pc = "idle"
    /\ p_task = NoTask
    /\ p_channel = [t \in TaskIds |-> "telegram"]
    /\ p_current = NoTask
    /\ p_replies = <<>>
    /\ p_exec = <<>>
    /\ p_refine = <<>>
    /\ p_info = [t \in TaskIds |-> NoInfo]
    /\ p_feedback = NoFeedback
    /\ p_chat = [t \in TaskIds |-> NoChat]
    /\ st_last_status = "running"
    /\ run_cycle = 0

runVars == <<st_last_status, run_cycle>>

\* _handle_telegram_message (lines 508-523) / _handle_email_task (525-543):
\* build the TaskInfo, add it to the State Store and enter _process_task;
\* the task ids are handed out in the order T0, T1, ...; chat is the
\* chat["id"] of a Telegram message (_parse_update, line 154)
ReceiveMessage(id, ch, chat) ==
    /\ p_pc = "idle"
    /\ st_status[id] = "absent"
    /\ \A t \in TaskIds : st_status[t] = "absent" => TaskRank(id) <= TaskRank(t)
    /\ Len(st_order) < MaxTasks
    /\ st_order' = AddTask(st_order, id)
    /\ st_status' = UpdateTaskStatus(st_status, id, "pending")
    /\ chat \in (IF ch = "telegram" THEN TelegramChats ELSE {NoChat})
    /\ chat = SecondChat => \E t \in TaskIds : p_chat[t] = FirstChat
    /\ p_channel' = [p_channel EXCEPT ![id] = ch]
    /\ p_chat' = [p_chat EXCEPT ![id] = chat]
    /\ p_task' = id
    /\ p_pc' = "understand"
    /\ UNCHANGED <<st_error, st_refined, p_current, p_replies, p_exec, p_refine, p_info,
                   p_feedback>>
    /\ UNCHANGED runVars
    /\ UNCHANGED <<monVars, queueVars, chanVars, auxVars>>

\* lines 941-945: the handler of an exception raised in _process_task, after
\* the replies and status writes the try block had already made
ExceptionHandled(id, replies, status) ==
    /\ p_replies' = Append(replies, Reply(id, "error"))
    /\ st_error' = TRUE
    /\ st_status' = UpdateTaskStatus(status, id, "failed")
    /\ p_pc' = "idle"

\* lines 687-748: pick the current task, run the Understanding agent and
\* branch on the intent; llm is "error" when the LLM request raises
Understand(llm, intent, interrupt) ==
    /\ p_pc = "understand"
    /\ LET current == CurrentTask(st_order, st_status)
       IN  IF llm = "error"
           THEN /\ ExceptionHandled(p_task, p_replies, st_status)
                /\ UNCHANGED <<p_current, p_feedback>>
                /\ p_info' = [p_info EXCEPT ![p_task].llm = "error",
                                            ![p_task].current = current,
                                            ![p_task].exc = "llm",
                                            ![p_task].returned = TRUE]
           ELSE /\ p_info' = [p_info EXCEPT ![p_task].llm = "ok",
                                            ![p_task].intent = intent,
                                            ![p_task].current = current]
                /\ IF intent = "confirm" /\ current # NoTask
                   THEN /\ p_current' = current
                        /\ p_pc' = "confirm_execute"
                        /\ UNCHANGED <<p_replies, p_feedback, st_error, st_status>>
                   ELSE /\ p_current' = current
                        /\ p_feedback' = BuildUnderstandingFeedback(p_task, interrupt)
                        /\ p_replies' = p_replies \o <<Reply(p_task, "understanding")>>
                               \o (IF interrupt /\ current # NoTask
                                   THEN <<Reply(p_task, "interrupt_confirm")>> ELSE <<>>)
                        /\ p_pc' = "refine"
                        /\ UNCHANGED <<st_error, st_status>>
    /\ UNCHANGED <<st_order, st_refined, p_task, p_channel, p_chat, p_exec, p_refine>>
    /\ UNCHANGED runVars
    /\ UNCHANGED <<monVars, queueVars, chanVars, auxVars>>

\* lines 724-731 and _handle_execution_result (994-1115): run the executor on
\* "current_task.refined_prompt or current_task.original_prompt", reply, and
\* write the current task's status
ConfirmExecute(o) ==
    /\ p_pc = "confirm_execute"
    /\ LET r == PromoteTimeout(Execute(o))
       IN  /\ p_exec' = Append(p_exec,
                   [task |-> p_current, by |-> p_task,
                    prompt |-> ConfirmPrompt(st_refined[p_current])])
           /\ p_replies' = Append(p_replies, OutcomeReply(p_task, r))
           /\ st_status' = UpdateTaskStatus(st_status, p_current, OutcomeStatus(r))
    /\ p_info' = [p_info EXCEPT ![p_task].run = o, ![p_task].returned = TRUE]
    /\ p_pc' = "idle"
    /\ UNCHANGED p_feedback
    /\ UNCHANGED <<st_order, st_error, st_refined, p_task, p_channel, p_chat, p_current,
                   p_refine>>
    /\ UNCHANGED runVars
    /\ UNCHANGED <<monVars, queueVars, chanVars, auxVars>>

\* lines 750-945: call the Refiner, write the processing status, ask for
\* clarification or run the task under the health monitor, and report
Refine(ref, o) ==
    /\ p_pc = "refine"
    /\ p_refine' = Append(p_refine, [task |-> p_task, raised |-> RefineRaises])
    /\ LET processing == UpdateTaskStatus(st_status, p_task, "processing")
           refined == Append(p_replies, Reply(p_task, "refined"))
           r == PromoteTimeout(Execute(o))
       IN  IF RefineRaises
           THEN /\ ExceptionHandled(p_task, p_replies, st_status)
                /\ UNCHANGED <<st_refined, p_exec>>
           ELSE /\ st_refined' = [st_refined EXCEPT ![p_task] = (ref # "proceed_empty")]
                /\ IF Escalates(ref)
                   THEN /\ p_replies' = Append(refined, Reply(p_task, "clarify"))
                        /\ st_status' = UpdateTaskStatus(processing, p_task, "completed")
                        /\ p_pc' = "idle"
                        /\ UNCHANGED <<st_error, p_exec>>
                   ELSE IF ~MonitorCallAwaited
                   THEN /\ ExceptionHandled(p_task, refined, processing)
                        /\ UNCHANGED p_exec
                   ELSE /\ p_exec' = Append(p_exec,
                               [task |-> p_task, by |-> p_task, prompt |-> "refined"])
                        /\ p_replies' = Append(refined, OutcomeReply(p_task, r))
                        /\ st_status' = UpdateTaskStatus(processing, p_task, OutcomeStatus(r))
                        /\ p_pc' = "idle"
                        /\ UNCHANGED st_error
    /\ p_info' = [p_info EXCEPT ![p_task].refinement = ref,
                                ![p_task].run = IF RefineRaises \/ Escalates(ref)
                                                     \/ ~MonitorCallAwaited
                                                THEN NoRun ELSE o,
                                ![p_task].exc = IF RefineRaises THEN "TypeError"
                                                ELSE IF Escalates(ref) \/ MonitorCallAwaited
                                                THEN "none" ELSE "AttributeError",
                                ![p_task].returned = TRUE]
    /\ p_feedback' = NoFeedback
    /\ UNCHANGED <<st_order, p_task, p_channel, p_chat, p_current>>
    /\ UNCHANGED runVars
    /\ UNCHANGED <<monVars, queueVars, chanVars, auxVars>>

\* Refine reaches the executor only when refine() returns, nothing is to be
\* clarified and the monitor call is awaited; otherwise no CLI run takes place
\* and its outcome is no input of the step
RunReached(ref) == ~RefineRaises /\ ~Escalates(ref) /\ MonitorCallAwaited

UnusedOutcome == [kind |-> "exit", rc |-> 0, out |-> 0, blank |-> FALSE, stderr |-> ""]

NextPipeline ==
    \/ \E id \in TaskIds, ch \in Channels, chat \in TelegramChats \cup {NoChat} :
          ReceiveMessage(id, ch, chat)
    \/ \E llm \in {"ok", "error"}, intent \in IntentTypes, interrupt \in BOOLEAN :
          Understand(llm, intent, interrupt)
    \/ \E o \in ProcOutcomes : ConfirmExecute(o)
    \/ \E ref \in Refinements, o \in ProcOutcomes :
          (RunReached(ref) \/ o = UnusedOutcome) /\ Refine(ref, o)

\* the state file an earlier run left behind with task T1 still pending,
\* alone or behind a task left in processing
RestartSnapshots ==
    { [order |-> <<"T1">>,
       status |-> [t \in TaskIds |-> IF t = "T1" THEN "pending" ELSE "absent"],
       refined |-> [t \in TaskIds |-> FALSE]],
      [order |-> <<"T0", "T1">>,
       status |-> [t \in TaskIds |-> CASE t = "T0" -> "processing"
                                       [] t = "T1" -> "pending"
                                       [] OTHER -> "absent"],
       refined |-> [t \in TaskIds |-> t = "T0"]] }

\* the engine has been constructed over the state file and run() not yet called
RestartStart ==
    /\ \E snap \in RestartSnapshots :
          st_order = snap.order /\ st_status = snap.status /\ st_refined = snap.refined
    /\ st_error = FALSE
    /\ p_pc = "start"
    /\ p_task = NoTask
    /\ p_channel = [t \in TaskIds |-> "telegram"]
    /\ p_current = NoTask
    /\ p_replies = <<>>
    /\ p_exec = <<>>
    /\ p_refine = <<>>
    /\ p_info = [t \in TaskIds |-> NoInfo]
    /\ p_feedback = NoFeedback
    /\ p_chat = [t \in TaskIds |-> NoChat]
    /\ st_last_status = "idle"
    /\ run_cycle = 0

\* run(), lines 400-413: 'state_manager.update_status("running")', then the
\* polling loop is entered
Run ==
    /\ p_pc = "start"
    /\ st_last_status' = "running"
    /\ p_pc' = "idle"
    /\ UNCHANGED <<st_order, st_status, st_error, st_refined, p_task, p_channel, p_chat,
                   p_current, p_replies, p_exec, p_refine, p_info, p_feedback, run_cycle>>
    /\ UNCHANGED <<monVars, queueVars, chanVars, auxVars>>

\* lines 416-419 and _poll_all_channels: an iteration of the loop in which
\* neither adapter returns a message; the State Store is not consulted
PollNothing ==
    /\ p_pc = "idle"
    /\ run_cycle' = 1 - run_cycle
    /\ UNCHANGED <<st_order, st_status, st_error, st_refined, p_pc, p_task, p_channel,
                   p_chat, p_current, p_replies, p_exec, p_refine, p_info, p_feedback,
                   st_last_status>>
    /\ UNCHANGED <<monVars, queueVars, chanVars, auxVars>>

\* the steps of _process_task once a handler has been entered
HandlerSteps ==
    \/ \E llm \in {"ok", "error"}, intent \in IntentTypes, interrupt \in BOOLEAN :
          Understand(llm, intent, interrupt)
    \/ \E o \in ProcOutcomes : ConfirmExecute(o)
    \/ \E ref \in Refinements, o \in ProcOutcomes :
          (RunReached(ref) \/ o = UnusedOutcome) /\ Refine(ref, o)

NextRestart ==
    \/ Run
    \/ PollNothing
    \/ NextPipeline

-----------------------------------------------------------------------------
(* Channel adapters: IMAPListener, EmailChannel, TelegramChannel, and the    *)
(* polling of _poll_all_channels that turns their messages into TaskInfos    *)

MailUids == 1..MaxMail

\* update_id values of the chat server
FirstUpdateId == 11
UpdateIds == FirstUpdateId..(FirstUpdateId + MaxUpdates - 1)

\* message_id of the message an update carries.  It is counted per chat and
\* has nothing to do with the update_id: the first update comes from a chat
\* with a long history, the later ones from a new chat
MessageId(u) == IF u = FirstUpdateId THEN u + 10 ELSE u - FirstUpdateId

MsgKeys == MailUids \cup UpdateIds

Adapters == {"imap", "email", "telegram"}

SetMax(S) == CHOOSE x \in S : \A y \in S : y <= x

\* "AND(seen=False, subject=...)": the messages a fetch iterates over
Fetchable(mail) == { u \in MailUids : mail[u] = "unseen" }

\* MailBox.fetch(criteria) is called without mark_seen, which imap_tools
\* sets to True by default: fetching a message sets its \Seen flag
FetchMarksSeen == TRUE

MarkFetched(mail, S) ==
    [u \in MailUids |-> IF u \in S /\ FetchMarksSeen THEN "seen" ELSE mail[u]]

\* getUpdates(offset): the server forgets the updates below the offset and
\* returns the others
Confirmed(pending, offset) == { u \in pending : u >= offset }

\* _parse_update returns a Message unless the text is a command or the user
\* is not allow-listed
Parsed(S, kind) == { u \in S : kind[u] \in {"text", "skill"} }

\* "self.offset = update['update_id'] + 1" for each parsed message, in order
OffsetAfter(offset, msgs) == IF msgs = {} THEN offset ELSE SetMax(msgs) + 1

\* the updates sent so far that an offset marks as processed
Below(offset, kind) == { u \in UpdateIds : kind[u] # "none" /\ u < offset }

NoCall == [adapter |-> "none", ok |-> FALSE, batch |-> {}, raised |-> FALSE,
           transient |-> FALSE, seq |-> 0]

\* a receive or poll call: whether it fetched, what it returned, whether an
\* exception left it, and whether it met a connection error (EOF, TLS, socket)
Call(adapter, ok, batch, raised, transient) ==
    [adapter |-> adapter, ok |-> ok, batch |-> batch, raised |-> raised,
     transient |-> transient, seq |-> 1 - ch_last.seq]

\* the adapters as their constructors leave them
AdaptersNew ==
    /\ imap_uids = {} /\ imap_conn = FALSE
    /\ ech_ids = {} /\ ech_conn = FALSE
    /\ tg_offset = 0
    /\ ch_marked = [a \in Adapters |-> {}]
    /\ ch_ever = [a \in Adapters |-> {}]

ChannelStart ==
    /\ AdaptersNew
    /\ srv_mail = [u \in MailUids |-> "none"]
    /\ tg_pending = {}
    /\ tg_kind = [u \in UpdateIds |-> "none"]
    /\ tg_returned = {}
    /\ ch_last = NoCall
    /\ ch_done = {}
    /\ ch_tasks = [m \in MsgKeys |-> 0]
    /\ ch_restarts = 0

mailVars == <<srv_mail, imap_uids, imap_conn, ech_ids, ech_conn>>
chatVars == <<tg_pending, tg_kind, tg_returned, tg_offset>>

\* a [Task] mail is delivered to the inbox
MailArrives(u) ==
    /\ srv_mail[u] = "none"
    /\ srv_mail' = [srv_mail EXCEPT ![u] = "unseen"]
    /\ UNCHANGED <<imap_uids, imap_conn, ech_ids, ech_conn, chatVars>>
    /\ UNCHANGED <<ch_marked, ch_ever, ch_last, ch_done, ch_tasks, ch_restarts>>
    /\ UNCHANGED <<monVars, queueVars, pipeVars, auxVars>>

\* a user sends the bot a message: the server queues an update with the next id
UpdateArrives(u, kind) ==
    /\ tg_kind[u] = "none"
    /\ \A v \in UpdateIds : v < u => tg_kind[v] # "none"
    /\ tg_kind' = [tg_kind EXCEPT ![u] = kind]
    /\ tg_pending' = tg_pending \cup {u}
    /\ UNCHANGED <<mailVars, tg_returned, tg_offset>>
    /\ UNCHANGED <<ch_marked, ch_ever, ch_last, ch_done, ch_tasks, ch_restarts>>
    /\ UNCHANGED <<monVars, queueVars, pipeVars, auxVars>>

\* IMAPListener.mark_seen / EmailChannel.mark_processed: mailbox.flag(...),
\* whose failure is logged and swallowed
MarkSeen(mail, S, flag_ok) ==
    [u \in MailUids |-> IF u \in S /\ flag_ok THEN "seen" ELSE mail[u]]

Count(tasks, S) == [m \in MsgKeys |-> IF m \in S THEN tasks[m] + 1 ELSE tasks[m]]

\* _poll_all_channels, mail half: IMAPListener.poll and _handle_email_task
\* for each task it returns.  net is what the mail server does to this poll;
\* on an error the fetch had iterated over the messages of done
PollEmail(net, done, logout_ok, flag_ok) ==
    /\ net \in {"ok", "connect_fail", "eof", "error"}
    /\ net = "connect_fail" => ~imap_conn
    /\ done \subseteq Fetchable(srv_mail)
    /\ net \in {"ok", "connect_fail"} => done = {}
    /\ net # "eof" => logout_ok
    /\ net # "ok" => flag_ok
    /\ LET fetched == Fetchable(srv_mail)
           fresh == fetched \ imap_uids
       IN  IF net = "connect_fail"
           THEN /\ ch_last' = Call("imap", FALSE, {}, FALSE, FALSE)
                /\ UNCHANGED <<srv_mail, imap_uids, imap_conn, ch_ever, ch_done, ch_tasks>>
           ELSE IF net = "ok"
           THEN /\ \A u \in fresh : ch_tasks[u] < MaxTasksPerMessage
                /\ srv_mail' = MarkSeen(MarkFetched(srv_mail, fetched), fresh, flag_ok)
                /\ imap_uids' = imap_uids \cup fresh
                /\ imap_conn' = TRUE
                /\ ch_last' = Call("imap", TRUE, fresh, FALSE, FALSE)
                /\ ch_ever' = [ch_ever EXCEPT !["imap"] = @ \cup fresh]
                /\ ch_done' = ch_done \cup fresh
                /\ ch_tasks' = Count(ch_tasks, fresh)
           ELSE /\ srv_mail' = MarkFetched(srv_mail, done)
                /\ imap_uids' = imap_uids \cup done
                /\ imap_conn' = ~(net = "eof" /\ logout_ok)
                /\ ch_last' = Call("imap", FALSE, {}, net = "eof" /\ ~logout_ok, net = "eof")
                /\ ch_done' = ch_done \cup (done \ imap_uids)
                /\ UNCHANGED <<ch_ever, ch_tasks>>
    /\ UNCHANGED <<ech_ids, ech_conn, chatVars, ch_marked, ch_restarts>>
    /\ UNCHANGED <<monVars, queueVars, pipeVars, auxVars>>

\* EmailChannel.receive
EmailChannelReceive(net, done) ==
    /\ net \in {"ok", "connect_fail", "login_fail", "error"}
    /\ net \in {"connect_fail", "login_fail"} => ~ech_conn
    /\ done \subseteq Fetchable(srv_mail)
    /\ net # "error" => done = {}
    /\ LET fetched == Fetchable(srv_mail)
           fresh == fetched \ ech_ids
       IN  IF net \in {"connect_fail", "login_fail"}
           THEN /\ ech_conn' = (net = "login_fail")
                /\ ch_last' = Call("email", FALSE, {}, FALSE, FALSE)
                /\ UNCHANGED <<srv_mail, ech_ids, ch_ever>>
           ELSE IF net = "ok"
           THEN /\ srv_mail' = MarkFetched(srv_mail, fetched)
                /\ ech_ids' = ech_ids \cup fresh
                /\ ech_conn' = TRUE
                /\ ch_last' = Call("email", TRUE, fresh, FALSE, FALSE)
                /\ ch_ever' = [ch_ever EXCEPT !["email"] = @ \cup fresh]
           ELSE /\ srv_mail' = MarkFetched(srv_mail, done)
                /\ ech_ids' = ech_ids \cup done
                /\ ech_conn' = TRUE
                /\ ch_last' = Call("email", FALSE, {}, FALSE, FALSE)
                /\ UNCHANGED ch_ever
    /\ UNCHANGED <<imap_uids, imap_conn, chatVars, ch_marked, ch_done, ch_tasks, ch_restarts>>
    /\ UNCHANGED <<monVars, queueVars, pipeVars, auxVars>>

\* EmailChannel.mark_processed
EmailChannelMarkProcessed(u, flag_ok) ==
    /\ srv_mail[u] # "none"
    /\ ech_ids' = ech_ids \cup {u}
    /\ srv_mail' = MarkSeen(srv_mail, {u}, ech_conn /\ flag_ok)
    /\ ch_marked' = [ch_marked EXCEPT !["email"] = @ \cup {u}]
    /\ UNCHANGED <<imap_uids, imap_conn, ech_conn, chatVars>>
    /\ UNCHANGED <<ch_ever, ch_last, ch_done, ch_tasks, ch_restarts>>
    /\ UNCHANGED <<monVars, queueVars, pipeVars, auxVars>>

\* _poll_all_channels, chat half: TelegramChannel.receive and
\* _handle_telegram_message for each message it returns; a skill message is
\* answered without a TaskInfo
PollTelegram(net) ==
    /\ net \in {"ok", "error"}
    /\ LET pend == Confirmed(tg_pending, tg_offset)
           msgs == Parsed(pend, tg_kind)
           tasks == { u \in msgs : tg_kind[u] = "text" }
       IN  IF net = "error"
           THEN /\ ch_last' = Call("telegram", FALSE, {}, FALSE, FALSE)
                /\ UNCHANGED <<tg_pending, tg_returned, tg_offset, ch_ever, ch_done,
                               ch_tasks>>
           ELSE /\ \A u \in tasks : ch_tasks[u] < MaxTasksPerMessage
                /\ tg_pending' = pend
                /\ tg_returned' = tg_returned \cup pend
                /\ tg_offset' = OffsetAfter(tg_offset, msgs)
                /\ ch_last' = Call("telegram", TRUE, msgs, FALSE, FALSE)
                /\ ch_ever' = [ch_ever EXCEPT !["telegram"] = @ \cup msgs]
                /\ ch_done' = ch_done \cup Below(OffsetAfter(tg_offset, msgs), tg_kind)
                /\ ch_tasks' = Count(ch_tasks, tasks)
    /\ UNCHANGED <<mailVars, tg_kind, ch_marked, ch_restarts>>
    /\ UNCHANGED <<monVars, queueVars, pipeVars, auxVars>>

\* TelegramChannel.mark_processed(message.id), for a Message that receive has
\* returned
TelegramMarkProcessed(u) ==
    /\ u \in ch_ever["telegram"]
    /\ tg_offset' = IF MessageId(u) >= tg_offset THEN MessageId(u) + 1 ELSE tg_offset
    /\ ch_marked' = [ch_marked EXCEPT !["telegram"] = @ \cup {u}]
    /\ ch_done' = ch_done \cup Below(tg_offset', tg_kind)
    /\ UNCHANGED <<mailVars, tg_pending, tg_kind, tg_returned>>
    /\ UNCHANGED <<ch_ever, ch_last, ch_tasks, ch_restarts>>
    /\ UNCHANGED <<monVars, queueVars, pipeVars, auxVars>>

\* the engine is stopped and started again: new adapter objects, while the
\* servers keep what they hold
Restart ==
    /\ ch_restarts < MaxRestarts
    /\ ch_restarts' = ch_restarts + 1
    /\ imap_uids' = {} /\ imap_conn' = FALSE
    /\ ech_ids' = {} /\ ech_conn' = FALSE
    /\ tg_offset' = 0
    /\ ch_marked' = [a \in Adapters |-> {}]
    /\ ch_ever' = [a \in Adapters |-> {}]
    /\ UNCHANGED <<srv_mail, tg_pending, tg_kind, tg_returned, ch_last, ch_done, ch_tasks>>
    /\ UNCHANGED <<monVars, queueVars, pipeVars, auxVars>>

NextMail ==
    \/ \E u \in MailUids : MailArrives(u)
    \/ \E net \in {"ok", "connect_fail", "eof", "error"}, done \in SUBSET MailUids,
          logout_ok \in BOOLEAN, flag_ok \in BOOLEAN : PollEmail(net, done, logout_ok, flag_ok)
    \/ \E net \in {"ok", "connect_fail", "login_fail", "error"}, done \in SUBSET MailUids :
          EmailChannelReceive(net, done)
    \/ \E u \in MailUids, flag_ok \in BOOLEAN : EmailChannelMarkProcessed(u, flag_ok)
    \/ Restart

NextChat ==
    \/ \E u \in UpdateIds, kind \in {"text", "skill", "ignored"} : UpdateArrives(u, kind)
    \/ \E net \in {"ok", "error"} : PollTelegram(net)
    \/ \E u \in UpdateIds : TelegramMarkProcessed(u)
    \/ Restart

-----------------------------------------------------------------------------
(* The state snapshot file: the State Store and cleanup_state.py write it,   *)
(* any process may read it at any time                                       *)

\* what a read of a path can observe: no file, a file of zero bytes, or a
\* complete JSON snapshot whose task_queue holds tasks entries
NoFile == [kind |-> "absent", tasks |-> 0, status |-> "none"]
EmptyFile == [kind |-> "empty", tasks |-> 0, status |-> "none"]
Snapshot(n, status) == [kind |-> "snapshot", tasks |-> n, status |-> status]

\* cleanup_state.py, lines 22-33: new_state
NewState == Snapshot(0, "idle")

\* open(path, 'w') creates the file or truncates it to zero bytes at once
OpenForWriting(content) == EmptyFile

\* json.dump into the buffered file and the end of the with block: the text
\* reaches the file when the buffer is flushed at close
DumpAndClose(data) == data

FileStart ==
    /\ f_state \in {NoFile, Snapshot(1, "running")}
    /\ f_backup = NoFile
    /\ cl_pc = "idle"
    /\ cl_old = NoFile
    /\ cl_file = "none"
    /\ cl_runs = 0
    /\ sm_saves = 0
    /\ f_reads = <<>>

\* State Store snapshot(): write-temp-then-rename, so the path changes from
\* one complete snapshot to the next in one step; a file that another
\* process holds open under that path is no longer the file of the path
StateStoreSnapshot(n) ==
    /\ sm_saves < MaxSaves
    /\ sm_saves' = sm_saves + 1
    /\ f_state' = Snapshot(n, "running")
    /\ cl_file' = IF cl_file = "state" THEN "replaced" ELSE cl_file
    /\ UNCHANGED <<f_backup, cl_pc, cl_old, cl_runs, f_reads>>
    /\ UNCHANGED <<monVars, queueVars, pipeVars, chanVars, sessVars, extVars>>

\* a process reads the state file
ReadStateFile ==
    /\ Len(f_reads) < MaxReads
    /\ f_reads' = Append(f_reads, f_state)
    /\ UNCHANGED <<f_state, f_backup, cl_pc, cl_old, cl_file, cl_runs, sm_saves>>
    /\ UNCHANGED <<monVars, queueVars, pipeVars, chanVars, sessVars, extVars>>

\* python cleanup_state.py is started; lines 14-16: the old file is loaded if
\* it exists, and json.load of a file of zero bytes raises
CleanupLoad ==
    /\ cl_pc = "idle"
    /\ cl_runs < MaxCleanups
    /\ cl_runs' = cl_runs + 1
    /\ IF f_state = NoFile
       THEN cl_pc' = "create" /\ UNCHANGED cl_old
       ELSE IF f_state = EmptyFile
       THEN cl_pc' = "idle" /\ UNCHANGED cl_old
       ELSE cl_pc' = "loaded" /\ cl_old' = f_state
    /\ UNCHANGED <<f_state, f_backup, cl_file, sm_saves, f_reads>>
    /\ UNCHANGED <<monVars, queueVars, pipeVars, chanVars, sessVars, extVars>>

\* line 17: open(BACKUP_FILE, 'w')
CleanupOpenBackup ==
    /\ cl_pc = "loaded"
    /\ f_backup' = OpenForWriting(f_backup)
    /\ cl_pc' = "backup_open"
    /\ UNCHANGED <<f_state, cl_old, cl_file, cl_runs, sm_saves, f_reads>>
    /\ UNCHANGED <<monVars, queueVars, pipeVars, chanVars, sessVars, extVars>>

\* line 18 and the end of the with block
CleanupWriteBackup ==
    /\ cl_pc = "backup_open"
    /\ f_backup' = DumpAndClose(cl_old)
    /\ cl_pc' = "create"
    /\ UNCHANGED <<f_state, cl_old, cl_file, cl_runs, sm_saves, f_reads>>
    /\ UNCHANGED <<monVars, queueVars, pipeVars, chanVars, sessVars, extVars>>

\* line 35: open(STATE_FILE, 'w')
CleanupOpenState ==
    /\ cl_pc = "create"
    /\ f_state' = OpenForWriting(f_state)
    /\ cl_file' = "state"
    /\ cl_pc' = "state_open"
    /\ UNCHANGED <<f_backup, cl_old, cl_runs, sm_saves, f_reads>>
    /\ UNCHANGED <<monVars, queueVars, pipeVars, chanVars, sessVars, extVars>>

\* line 36 and the end of the with block; the script then ends
CleanupWriteState ==
    /\ cl_pc = "state_open"
    /\ f_state' = IF cl_file = "state" THEN DumpAndClose(NewState) ELSE f_state
    /\ cl_file' = "none"
    /\ cl_pc' = "idle"
    /\ UNCHANGED <<f_backup, cl_old, cl_runs, sm_saves, f_reads>>
    /\ UNCHANGED <<monVars, queueVars, pipeVars, chanVars, sessVars, extVars>>

NextFile ==
    \/ \E n \in 0..MaxTasks : StateStoreSnapshot(n)
    \/ ReadStateFile
    \/ CleanupLoad
    \/ CleanupOpenBackup
    \/ CleanupWriteBackup
    \/ CleanupOpenState
    \/ CleanupWriteState

-----------------------------------------------------------------------------
(* Conversation memory: ConversationContext of short_term.py and Session of  *)
(* session.py, the object the message handlers add to                        *)

Roles == {"system", "user", "assistant"}

\* the max_messages a context is created with (the default is 100)
ContextCapacities == {1, 2}

\* the Python slice msgs[-k:], which for k = 0 is the whole list
LastMessages(msgs, k) ==
    IF k = 0 \/ k >= Len(msgs) THEN msgs
    ELSE SubSeq(msgs, Len(msgs) - k + 1, Len(msgs))

\* short_term.py, lines 79-80
TrimMessages(msgs, max) ==
    IF Len(msgs) > max + 1 THEN <<msgs[1]>> \o LastMessages(msgs, max) ELSE msgs

SessionStart ==
    /\ cx_max \in ContextCapacities
    /\ cx_messages = <<>>
    /\ cx_count = 0
    /\ ses_messages = <<>>

\* ConversationContext.add_message(role, content)
ContextAddMessage(role) ==
    /\ cx_count < MaxContextAdds
    /\ cx_count' = cx_count + 1
    /\ cx_messages' = TrimMessages(Append(cx_messages, [n |-> cx_count + 1, role |-> role]),
                                   cx_max)
    /\ UNCHANGED <<cx_max, ses_messages>>
    /\ UNCHANGED <<monVars, queueVars, pipeVars, chanVars, fileVars, extVars>>

\* Session.add_message(role, content)
SessionAddMessage(role) ==
    /\ Len(ses_messages) < MaxSessionAdds
    /\ ses_messages' = Append(ses_messages, [n |-> Len(ses_messages) + 1, role |-> role])
    /\ UNCHANGED <<cx_max, cx_messages, cx_count>>
    /\ UNCHANGED <<monVars, queueVars, pipeVars, chanVars, fileVars, extVars>>

NextSession ==
    \/ \E role \in Roles : ContextAddMessage(role)
    \/ \E role \in Roles : SessionAddMessage(role)

-----------------------------------------------------------------------------
(* Long-term memory: LongTermMemory over FileMemoryStore of long_term.py *)

Users == {"u1", "u2"}

\* expires_at = None
NoExpiry == -1

\* the ttl_days argument of add_memory: 0 stands for None
TtlDays == {0, 1}

\* _default_ttl_days of the manager (the default is 90)
DefaultTtls == {0, 1}

\* the limit argument of search_memories (the default is 10)
Limits == {1, 2}

NoSearch == [user |-> "none", time |-> -1, limit |-> 0, purged |-> -1]

\* MemoryEntry.is_expired() at time t
IsExpired(e, t) == IF e.expires_at = NoExpiry THEN FALSE ELSE t > e.expires_at

\* add_memory, lines 564-568: the expiry of a new entry
ExpiresAt(ttl_days, t) ==
    IF ttl_days # 0 \/ lm_ttl # 0
    THEN t + (IF ttl_days # 0 THEN ttl_days ELSE lm_ttl)
    ELSE NoExpiry

RECURSIVE EntriesOf(_, _)
\* the entries of a list that belong to a user, in the order of the list
EntriesOf(entries, user) ==
    IF entries = <<>> THEN <<>>
    ELSE (IF Head(entries).user_id = user THEN <<Head(entries)>> ELSE <<>>)
         \o EntriesOf(Tail(entries), user)

RECURSIVE Reversed(_)
Reversed(q) == IF q = <<>> THEN <<>> ELSE Reversed(Tail(q)) \o <<Head(q)>>

\* FileMemoryStore.list_by_user: the user's entries, newest first
ListByUser(user) == Reversed(EntriesOf(lm_entries, user))

\* the Python slice q[:limit]
FirstN(q, limit) == SubSeq(q, 1, IF limit < Len(q) THEN limit ELSE Len(q))

MemoryStart ==
    /\ lm_now = 0
    /\ lm_ttl \in DefaultTtls
    /\ lm_entries = <<>>
    /\ lm_added = 0
    /\ lm_purged = -1
    /\ lm_found = <<>>
    /\ lm_search = NoSearch

\* LongTermMemory.add_memory(memory_type, user_id, content, ttl_days=...)
AddMemory(user, ttl_days) ==
    /\ lm_added < MaxEntries
    /\ lm_added' = lm_added + 1
    /\ lm_entries' = Append(lm_entries,
                            [entry_id |-> lm_added + 1, user_id |-> user,
                             created_at |-> lm_now,
                             expires_at |-> ExpiresAt(ttl_days, lm_now)])
    /\ UNCHANGED <<lm_now, lm_ttl, lm_purged, lm_found, lm_search>>
    /\ UNCHANGED <<monVars, queueVars, pipeVars, chanVars, fileVars, sessVars, routeVars,
                 lockVars>>

\* a day passes
DayPasses ==
    /\ lm_now < MaxDays
    /\ lm_now' = lm_now + 1
    /\ UNCHANGED <<lm_ttl, lm_entries, lm_added, lm_purged, lm_found, lm_search>>
    /\ UNCHANGED <<monVars, queueVars, pipeVars, chanVars, fileVars, sessVars, routeVars,
                 lockVars>>

\* LongTermMemory.cleanup_expired_memories() -> FileMemoryStore.cleanup_expired()
CleanupExpired ==
    /\ lm_entries' = SelectSeq(lm_entries, LAMBDA e : ~IsExpired(e, lm_now))
    /\ lm_purged' = lm_now
    /\ UNCHANGED <<lm_now, lm_ttl, lm_added, lm_found, lm_search>>
    /\ UNCHANGED <<monVars, queueVars, pipeVars, chanVars, fileVars, sessVars, routeVars,
                 lockVars>>

\* LongTermMemory.search_memories(user_id, limit=...): every entry has the
\* default importance_score, so the order is by created_at, newest first
SearchMemories(user, limit) ==
    /\ lm_found' = FirstN(ListByUser(user), limit)
    /\ lm_search' = [user |-> user, time |-> lm_now, limit |-> limit,
                      purged |-> lm_purged]
    /\ UNCHANGED <<lm_now, lm_ttl, lm_entries, lm_added, lm_purged>>
    /\ UNCHANGED <<monVars, queueVars, pipeVars, chanVars, fileVars, sessVars, routeVars,
                 lockVars>>

NextMemory ==
    \/ \E user \in Users, ttl_days \in TtlDays : AddMemory(user, ttl_days)
    \/ DayPasses
    \/ CleanupExpired
    \/ \E user \in Users, limit \in Limits : SearchMemories(user, limit)

-----------------------------------------------------------------------------
(* The task identifiers the message handlers of main.py give to TaskInfos *)

\* strftime('%Y%m%d_%H%M%S'): the time cut to whole seconds
Strftime(t) == t \div 2

\* "tg_{}".format(...), main.py line 511
TelegramTaskId(t) == <<"tg_", Strftime(t)>>

\* str(uuid.uuid4()), imap.py line 148: the n-th value drawn is a new one
Uuid4(n) == <<"uuid", n>>

RouterStart ==
    /\ rt_now = 0
    /\ rt_uuids = 0
    /\ rt_handling = FALSE
    /\ rt_tasks = <<>>

\* _handle_telegram_message: the TaskInfo of lines 510-515
TelegramTaskInfo ==
    /\ ~rt_handling
    /\ Len(rt_tasks) < MaxMessages
    /\ rt_tasks' = Append(rt_tasks,
                          [message |-> Len(rt_tasks) + 1, channel |-> "telegram",
                           task_id |-> TelegramTaskId(rt_now)])
    /\ rt_handling' = TRUE
    /\ UNCHANGED <<rt_now, rt_uuids>>
    /\ UNCHANGED <<monVars, queueVars, pipeVars, chanVars, fileVars, sessVars, memVars,
                 lockVars>>

\* IMAPListener._parse_email_to_task gives the id, and _handle_email_task
\* copies it into the TaskInfo of lines 529-534
EmailTaskInfo ==
    /\ ~rt_handling
    /\ Len(rt_tasks) < MaxMessages
    /\ rt_handling' = TRUE
    /\ rt_uuids' = rt_uuids + 1
    /\ rt_tasks' = Append(rt_tasks,
                          [message |-> Len(rt_tasks) + 1, channel |-> "email",
                           task_id |-> Uuid4(rt_uuids + 1)])
    /\ UNCHANGED rt_now
    /\ UNCHANGED <<monVars, queueVars, pipeVars, chanVars, fileVars, sessVars, memVars,
                 lockVars>>

\* half a second passes, in which a running handler returns: _process_task
\* takes time, but nothing makes it take a whole second
ClockAdvances ==
    /\ rt_now < MaxClock
    /\ rt_now' = rt_now + 1
    /\ rt_handling' = FALSE
    /\ UNCHANGED <<rt_uuids, rt_tasks>>
    /\ UNCHANGED <<monVars, queueVars, pipeVars, chanVars, fileVars, sessVars, memVars,
                 lockVars>>

NextRouter ==
    \/ TelegramTaskInfo
    \/ EmailTaskInfo
    \/ ClockAdvances

-----------------------------------------------------------------------------
(* TaskQueue._lock, a threading.Lock, as to_dict() and get_stats() take it *)

Threads == {"main", "worker"}

\* threading.Lock.acquire() by thread t: it succeeds only while nobody, the
\* caller included, holds the lock
CanAcquire(t) == lk_owner = "none"

LockStart ==
    /\ lk_owner = "none"
    /\ th_pc = [t \in Threads |-> "idle"]
    /\ th_calls = [t \in Threads |-> 0]
    /\ th_returned = [t \in Threads |-> 0]

\* a thread calls get_stats() and reaches "with self._lock" (line 181)
CallGetStats(t) ==
    /\ th_pc[t] = "idle"
    /\ th_calls[t] < MaxCalls
    /\ th_calls' = [th_calls EXCEPT ![t] = @ + 1]
    /\ th_pc' = [th_pc EXCEPT ![t] = "get_stats"]
    /\ UNCHANGED <<lk_owner, th_returned>>
    /\ UNCHANGED <<monVars, queueVars, pipeVars, chanVars, fileVars, sessVars, memVars,
                 routeVars>>

\* a thread calls to_dict() and reaches "with self._lock" (line 228)
CallToDict(t) ==
    /\ th_pc[t] = "idle"
    /\ th_calls[t] < MaxCalls
    /\ th_calls' = [th_calls EXCEPT ![t] = @ + 1]
    /\ th_pc' = [th_pc EXCEPT ![t] = "to_dict"]
    /\ UNCHANGED <<lk_owner, th_returned>>
    /\ UNCHANGED <<monVars, queueVars, pipeVars, chanVars, fileVars, sessVars, memVars,
                 routeVars>>

\* to_dict, lines 228-243: the lock is taken, the "queue" and "processing"
\* entries are built, and "stats" calls self.get_stats(), which reaches its
\* own "with self._lock"
ToDictEnter(t) ==
    /\ th_pc[t] = "to_dict"
    /\ CanAcquire(t)
    /\ lk_owner' = t
    /\ th_pc' = [th_pc EXCEPT ![t] = "to_dict.get_stats"]
    /\ UNCHANGED <<th_calls, th_returned>>
    /\ UNCHANGED <<monVars, queueVars, pipeVars, chanVars, fileVars, sessVars, memVars,
                 routeVars>>

\* get_stats, lines 181-188: take the lock, build the counts, release the
\* lock and return; when the caller is to_dict, to_dict then leaves its own
\* "with" block and returns
GetStats(t) ==
    /\ th_pc[t] \in {"get_stats", "to_dict.get_stats"}
    /\ CanAcquire(t)
    /\ lk_owner' = "none"
    /\ th_pc' = [th_pc EXCEPT ![t] = "idle"]
    /\ th_returned' = [th_returned EXCEPT ![t] = @ + 1]
    /\ UNCHANGED th_calls
    /\ UNCHANGED <<monVars, queueVars, pipeVars, chanVars, fileVars, sessVars, memVars,
                 routeVars>>

NextLock ==
    \/ \E t \in Threads : CallGetStats(t)
    \/ \E t \in Threads : CallToDict(t)
    \/ \E t \in Threads : ToDictEnter(t)
    \/ \E t \in Threads : GetStats(t)

-----------------------------------------------------------------------------
(* Specifications *)

SessionIdle ==
    /\ cx_max = 1 /\ cx_messages = <<>> /\ cx_count = 0 /\ ses_messages = <<>>

FileIdle ==
    /\ f_state = NoFile /\ f_backup = NoFile /\ cl_pc = "idle" /\ cl_old = NoFile
    /\ cl_file = "none"
    /\ cl_runs = 0 /\ sm_saves = 0 /\ f_reads = <<>>

MemoryIdle ==
    /\ lm_now = 0 /\ lm_ttl = 1 /\ lm_entries = <<>> /\ lm_added = 0 /\ lm_purged = -1
    /\ lm_found = <<>> /\ lm_search = NoSearch

RouterIdle == RouterStart

LockIdle == LockStart

ExtIdle == MemoryIdle /\ RouterIdle /\ LockIdle

AuxIdle == FileIdle /\ SessionIdle /\ ExtIdle

MonitorIdle ==
    /\ now = 0 /\ task_type = "unknown" /\ chat_id = NoChat /\ notify_enabled = FALSE
    /\ mon_pc = "idle" /\ exec_task = "none" /\ exec_result = NoResult
    /\ proc = "none" /\ thread_result = NoResult /\ out_len = 0 /\ wait_start = 0
    /\ last_activity_time = 0 /\ last_output_len = 0 /\ check_count = 0
    /\ inactive_periods = 0 /\ mon_log = <<>> /\ mon_result = NoResult
    /\ last_out_time = 0 /\ grew = FALSE /\ steady = TRUE
    /\ cancel_time = -1 /\ out_at_cancel = 0

QueueIdle == QueueStart

PipelineIdle ==
    /\ st_order = <<>> /\ st_status = [t \in TaskIds |-> "absent"] /\ st_error = FALSE
    /\ p_pc = "off" /\ p_task = NoTask /\ p_channel = [t \in TaskIds |-> "telegram"]
    /\ p_current = NoTask /\ p_replies = <<>> /\ p_exec = <<>>
    /\ st_refined = [t \in TaskIds |-> FALSE] /\ p_refine = <<>>
    /\ p_info = [t \in TaskIds |-> NoInfo] /\ p_chat = [t \in TaskIds |-> NoChat]
    /\ p_feedback = NoFeedback
    /\ st_last_status = "idle" /\ run_cycle = 0

ChannelIdle == ChannelStart

InitMonitor == MonitorStart /\ QueueIdle /\ PipelineIdle /\ ChannelIdle /\ AuxIdle
SpecMonitor == InitMonitor /\ [][NextMonitor]_vars

InitQueue == QueueStart /\ MonitorIdle /\ PipelineIdle /\ ChannelIdle /\ AuxIdle
SpecQueue == InitQueue /\ [][NextQueue]_vars

InitPipeline == PipelineStart /\ MonitorIdle /\ QueueIdle /\ ChannelIdle /\ AuxIdle
SpecPipeline == InitPipeline /\ [][NextPipeline]_vars

\* the loop of run() keeps iterating until a shutdown is requested, and a
\* handler that was entered runs through
FairRestart ==
    /\ WF_vars(Run)
    /\ WF_vars(PollNothing)
    /\ WF_vars(HandlerSteps)

InitRestart == RestartStart /\ MonitorIdle /\ QueueIdle /\ ChannelIdle /\ AuxIdle
SpecRestart == InitRestart /\ [][NextRestart]_vars /\ FairRestart

InitChannel == ChannelStart /\ MonitorIdle /\ QueueIdle /\ PipelineIdle /\ AuxIdle
SpecMail == InitChannel /\ [][NextMail]_vars
SpecChat == InitChannel /\ [][NextChat]_vars

InitFile == FileStart /\ SessionIdle /\ ExtIdle /\ MonitorIdle /\ QueueIdle /\ PipelineIdle /\ ChannelIdle
SpecFile == InitFile /\ [][NextFile]_vars

InitSession == SessionStart /\ FileIdle /\ ExtIdle /\ MonitorIdle /\ QueueIdle /\ PipelineIdle
               /\ ChannelIdle
SpecSession == InitSession /\ [][NextSession]_vars

InitMemory == MemoryStart /\ RouterIdle /\ LockIdle /\ FileIdle /\ SessionIdle /\ MonitorIdle
              /\ QueueIdle /\ PipelineIdle /\ ChannelIdle
SpecMemory == InitMemory /\ [][NextMemory]_vars

InitRouter == RouterStart /\ MemoryIdle /\ LockIdle /\ FileIdle /\ SessionIdle /\ MonitorIdle
              /\ QueueIdle /\ PipelineIdle /\ ChannelIdle
SpecRouter == InitRouter /\ [][NextRouter]_vars

InitLock == LockStart /\ MemoryIdle /\ RouterIdle /\ FileIdle /\ SessionIdle /\ MonitorIdle
            /\ QueueIdle /\ PipelineIdle /\ ChannelIdle
SpecLock == InitLock /\ [][NextLock]_vars

-----------------------------------------------------------------------------
(* Properties of the supervised run, checked under SpecMonitor *)

\* seconds for which the running subprocess has written nothing
SilentFor == now - last_out_time

\* the monitor cancelled the executor task and has returned
Interrupted == mon_pc = "returned" /\ cancel_time >= 0 /\ exec_task = "cancelled"

\* C1: in a run whose output grows in every heartbeat interval the monitor
\* never cancels the executor task, and the monitor returns only once the
\* subprocess has exited.
C1_SteadyRunNeverCancelled ==
    steady => /\ cancel_time = -1
              /\ mon_pc = "returned" => proc # "running"

C3_CancelOnlyWhenUnresponsive ==
    cancel_time >= 0 =>
        /\ inactive_periods >= MaxInactivePeriods
        /\ cancel_time - last_activity_time >= ActivityThreshold(task_type)

\* C4: once the monitor has returned the interrupted result, the subprocess
\* launched for the task is no longer running.
C4_SubprocessKilledOnCancel ==
    Interrupted => proc # "running"

\* C5: started with timeout=None, the executor never ends a run with a
\* timeout of its own.
C5_NoExecutorTimeout ==
    /\ proc # "timed_out"
    /\ thread_result.kind = "result" => thread_result.error.tag # "Command timed out"

\* C6: the result of an interruption has success=false, an error naming the
\* inactivity duration, the duration set, and the stdout the subprocess had
\* produced when it was interrupted.
C6_InterruptedResultKeepsStdout ==
    Interrupted =>
        /\ mon_result.success = FALSE
        /\ mon_result.error.tag = "no_response"
        /\ mon_result.duration >= cancel_time
        /\ mon_result.stdout_len = out_at_cancel

\* C7: an interruption of a task that has a chat_id sends exactly two
\* notifications to it: the alert before the cancel, the interrupted
\* notification after the cancel and before the result is returned.
C7_TwoNotificationsAroundCancel ==
    (Interrupted /\ notify_enabled /\ chat_id # NoChat) =>
        mon_log = <<[ev |-> "alert", chat |-> chat_id], CancelEvent,
                    [ev |-> "interrupted", chat |-> chat_id]>>

\* C8: one heartbeat after the monitor issued the cancel it has returned a
\* failed, interrupted result, whether or not the subprocess has stopped.
C8_ReturnsWithoutAcknowledgement ==
    (cancel_time >= 0 /\ now >= cancel_time + HeartbeatInterval) =>
        /\ mon_pc = "returned"
        /\ mon_result.kind = "monitored"
        /\ mon_result.success = FALSE
        /\ mon_result.error.tag \in {"task_interrupted", "no_response"}

C8_Witness ==
    /\ cancel_time >= 0
    /\ now >= cancel_time + HeartbeatInterval
    /\ proc = "running"
    /\ mon_pc = "returned"

-----------------------------------------------------------------------------
(* Properties of the task queue, checked under SpecQueue *)

\* C9: a task whose status is completed, failed or cancelled is never moved
\* back to pending or processing by a queue operation.
C9_TerminalStaysTerminal ==
    [][\A t \in QueueTasks :
          q_status[t] \in Terminal => q_status'[t] \notin {"pending", "processing"}]_vars

-----------------------------------------------------------------------------
(* Properties of the pipeline's status writes, checked under SpecPipeline *)

StatusMoves ==
    { <<"absent", "pending">>, <<"pending", "processing">>,
      <<"processing", "completed">>, <<"processing", "failed">>,
      <<"processing", "cancelled">> }

\* C10: every change of a task's status follows pending -> processing ->
\* {completed, failed, cancelled}; a terminal status is never replaced.
C10_StatusFollowsLifecycle ==
    [][\A t \in TaskIds :
          st_status'[t] # st_status[t] => <<st_status[t], st_status'[t]>> \in StatusMoves]_vars

-----------------------------------------------------------------------------
(* Properties of message intake, checked under SpecChat and SpecMail *)

\* C11: once an adapter has recorded a message as processed, no further
\* TaskInfo is built from that message, also after a restart of the engine.
C11_AtMostOncePerMessage ==
    [][\A m \in MsgKeys : m \in ch_done => ch_tasks'[m] = ch_tasks[m]]_vars

\* C12: a receive that succeeds returns again every message the same adapter
\* returned before and for which mark_processed has not been called.
C12_ReceiveIsNonDestructive ==
    [][(ch_last' # ch_last /\ ch_last'.ok) =>
          \A m \in ch_ever[ch_last'.adapter] \ ch_marked[ch_last'.adapter] :
              m \in ch_last'.batch]_vars

-----------------------------------------------------------------------------
(* Properties of the handling of one message, checked under SpecPipeline *)

RepliesTo(t, kind) == { i \in DOMAIN p_replies :
                          p_replies[i].task = t /\ p_replies[i].kind = kind }

RunsBy(t) == { i \in DOMAIN p_exec : p_exec[i].by = t }

RefinesFor(t) == { i \in DOMAIN p_refine : p_refine[i].task = t }

\* C13: a message whose refinement comes back with clarifications and a
\* confidence below 0.6 gets the questions as a reply, its task is marked
\* completed and the executor is not run for it.
C13_EscalationAsksAndCompletes ==
    \A t \in TaskIds :
        (p_info[t].returned /\ p_info[t].refinement = "escalate") =>
            /\ RepliesTo(t, "clarify") # {}
            /\ st_status[t] = "completed"
            /\ RunsBy(t) = {}

\* a confirm message that found a task in processing and has been handled
ConfirmHandled(t) ==
    /\ p_info[t].returned
    /\ p_info[t].intent = "confirm"
    /\ p_info[t].current # NoTask

C15_CancelAndClarificationStop ==
    \A t \in TaskIds :
        (p_info[t].returned /\ p_info[t].intent \in {"cancel", "clarification"}) =>
            /\ RefinesFor(t) = {}
            /\ RunsBy(t) = {}
            /\ (p_info[t].intent = "cancel" /\ p_info[t].current # NoTask)
                  => st_status[p_info[t].current] = "cancelled"

\* C16: a new-task message whose refinement does not escalate has the
\* executor run for it, and its task ends completed on exit code 0 and
\* failed on any other exit code.
C16_ExitCodeDecidesStatus ==
    \A t \in TaskIds :
        (p_info[t].returned /\ p_info[t].intent = "new_task"
            /\ p_info[t].refinement \in {"proceed", "proceed_empty"}) =>
            /\ p_info[t].run.kind = "exit"
            /\ st_status[t] = IF p_info[t].run.rc = 0 THEN "completed" ELSE "failed"

\* the task whose status records the outcome of the run made for message t
RunTarget(t) == IF p_info[t].current # NoTask /\ p_info[t].intent = "confirm"
                THEN p_info[t].current ELSE t

\* C17: a run that wrote output and was ended by the timeout is reported as
\* done and its task is recorded as completed.
C17_TimeoutWithOutputIsPromoted ==
    \A t \in TaskIds :
        (p_info[t].returned /\ p_info[t].run.kind = "timeout"
            /\ p_info[t].run.out > 0 /\ ~p_info[t].run.blank) =>
            /\ RepliesTo(t, "done") # {}
            /\ st_status[RunTarget(t)] = "completed"

\* C19: when an exception was raised while a message's task was processed,
\* the handler has returned with the task marked failed, the error recorded
\* and an error reply sent to the user.
C19_ExceptionsAreHandled ==
    \A t \in TaskIds :
        p_info[t].exc # "none" =>
            /\ p_info[t].returned
            /\ st_status[t] = "failed"
            /\ st_error
            /\ \E i \in RepliesTo(t, "error") : p_replies[i].sent

\* C20: a failing LLM request does not raise into the pipeline: the
\* Understanding step still yields an intent.
C20_LLMFailureFallsBack ==
    \A t \in TaskIds :
        p_info[t].llm = "error" =>
            /\ p_info[t].exc = "none"
            /\ p_info[t].intent \in IntentTypes

-----------------------------------------------------------------------------
(* The reply built from the monitor's result, checked under SpecMonitor *)

\* C18: the reply built from the result of a run that the monitor
\* interrupted after it had written output is labelled partial completion
\* and carries that output.
C18_InterruptedRunRepliesPartial ==
    (Interrupted /\ out_at_cancel > 0) =>
        LET reply == OutcomeReply("T0", PromoteTimeout(AsExecutionResult(mon_result)))
        IN  reply.kind = "partial" /\ reply.out = out_at_cancel

-----------------------------------------------------------------------------
(* Properties of reply routing, checked under SpecPipeline *)

C22_TerminalTaskIsAnswered ==
    \A t \in TaskIds :
        (p_info[t].returned /\ st_status[t] \in Terminal) =>
            \E i \in 1..Len(p_replies) :
                /\ p_replies[i].task = t
                /\ p_replies[i].channel = p_channel[t]
                /\ p_replies[i].sent

-----------------------------------------------------------------------------
(* Properties of a restart, checked under SpecRestart *)

\* C23: started over a state file whose task_queue holds the pending task T1,
\* the pipeline sets last_status to running and eventually T1 has been run to
\* a terminal status and is no longer in task_queue.
C23_PendingTaskIsResumed ==
    (p_pc = "start" /\ st_status["T1"] = "pending") ~>
        (/\ st_last_status = "running"
         /\ st_status["T1"] \in Terminal
         /\ \A i \in 1..Len(st_order) : st_order[i] # "T1")

-----------------------------------------------------------------------------
(* Properties of the state snapshot file, checked under SpecFile *)

\* C24: every writer replaces the state file atomically: whatever a read of
\* the file observed, while a writer was at work or not, was a complete
\* snapshot (or no file at all), never a file of zero bytes or part of one.
C24_ReadsSeeCompleteSnapshots ==
    \A i \in 1..Len(f_reads) : f_reads[i].kind \in {"snapshot", "absent"}

-----------------------------------------------------------------------------
(* Properties of polling under network failures, checked under SpecMail *)

\* C25: a receive or poll call that met a network failure did not raise and
\* returned an empty list.
C25_NetworkFailureReturnsEmpty ==
    (ch_last.adapter # "none" /\ ~ch_last.ok) =>
        (~ch_last.raised /\ ch_last.batch = {})

\* C26: when a mail poll that met a connection error (EOF, TLS or socket) has
\* returned, the adapter is disconnected, so that the next poll connects anew
\* before it fetches.
C26_TransientErrorDisconnects ==
    (ch_last.adapter = "imap" /\ ch_last.transient) => ~imap_conn

-----------------------------------------------------------------------------
(* Properties of the task queue, checked under SpecQueue *)

\* get_next takes task t from the pending queue in this step
Taken(t) ==
    /\ q_processing = NoItem
    /\ q_processing' # NoItem
    /\ q_processing'.id = t

\* C27: execution is serial: the processing slot never passes from one task
\* to a different one without having been freed by complete or cancel, and
\* while the slot is occupied get_next returns the task that occupies it.
C27_SerialExecution ==
    [][/\ (q_processing # NoItem /\ q_processing' # NoItem) =>
              q_processing'.id = q_processing.id
       /\ (q_processing # NoItem /\ q_processing' = q_processing) =>
              q_returned' \in {q_returned, q_processing.id}
       /\ (q_returned' # q_returned /\ q_returned' # "none") =>
              q_processing'.id = q_returned']_vars

\* a second task waits in the queue while get_next is asked again and returns
\* the task in processing
C27_Witness ==
    /\ q_processing # NoItem
    /\ q_queue # <<>>
    /\ Head(q_queue).id # q_processing.id
    /\ q_returned = q_processing.id
    /\ q_completed # <<>>

InFailed(t) == \E i \in 1..Len(q_failed) : q_failed[i].id = t

\* C28: a failed task is put back for another run max_retries times, so a
\* task that get_next hands out has been retried at most max_retries times,
\* and a task that rests in the failed list is never handed out again.
C28_RetriesAreBounded ==
    [][\A t \in QueueTasks :
          Taken(t) => (q_processing'.retries <= MaxRetries /\ ~InFailed(t))]_vars

\* C29: the task get_next takes from the pending queue has the smallest
\* priority number of all pending tasks and, among those of its priority, is
\* the one added earliest.
C29_HighestPriorityFirst ==
    [][\A t \in QueueTasks :
          Taken(t) =>
             \A i \in 1..Len(q_queue) :
                \/ q_processing'.priority < q_queue[i].priority
                \/ /\ q_processing'.priority = q_queue[i].priority
                   /\ q_processing'.added <= q_queue[i].added]_vars

-----------------------------------------------------------------------------
(* Properties of the conversation memory, checked under SpecSession *)

\* C30: after any sequence of add-message operations the message list of a
\* session, be it the ConversationContext or the Session the handlers use,
\* holds at most max_messages + 1 messages.
C30_SessionLengthIsBounded ==
    /\ Len(cx_messages) <= cx_max + 1
    /\ Len(ses_messages) <= cx_max + 1

\* C31: when the capacity of a context is exceeded the messages dropped are
\* the oldest and the messages kept are the most recent, in their order of
\* arrival; only a system prompt at index 0 is kept besides them.  So the
\* list, leaving a system prompt at its head aside, is always the unbroken
\* run of the latest messages.
C31_DroppedAreOldest ==
    LET rest == IF cx_messages # <<>> /\ cx_messages[1].role = "system"
                THEN Tail(cx_messages) ELSE cx_messages
    IN  \A i \in 1..Len(rest) : rest[i].n = cx_count - Len(rest) + i

-----------------------------------------------------------------------------
(* Properties of the long-term memory, checked under SpecMemory *)

\* C32: once expired entries have been purged, no search returns an entry
\* whose expires_at is earlier than the time of that search.
C32_NoExpiredEntryAfterPurge ==
    lm_search.purged >= 0 =>
        \A i \in 1..Len(lm_found) :
            lm_found[i].expires_at = NoExpiry \/ lm_found[i].expires_at >= lm_search.time

-----------------------------------------------------------------------------
(* Properties of the task identifiers, checked under SpecRouter *)

\* C33: the TaskInfos built for two different inbound messages never carry
\* the same task_id.
C33_TaskIdsAreUnique ==
    \A i, j \in 1..Len(rt_tasks) :
        i # j => rt_tasks[i].task_id # rt_tasks[j].task_id

-----------------------------------------------------------------------------
(* Properties of the chat offset, checked under SpecChat *)

\* C34: across receive and mark_processed calls of one adapter the offset
\* never decreases, and every value it takes is update_id + 1 of an update
\* the server has already returned.
C34_OffsetIsMonotonic ==
    [][ch_restarts' = ch_restarts =>
          /\ tg_offset' >= tg_offset
          /\ tg_offset' # tg_offset => (tg_offset' - 1) \in tg_returned']_vars

\* C40: when a receive has handled the batch of updates the server returned,
\* the offset is greater than the update_id of every update of the batch,
\* the ones filtered out as commands or foreign users included, so that no
\* later receive fetches one of them again.
C40_OffsetPassesWholeBatch ==
    [][(ch_last' # ch_last /\ ch_last'.adapter = "telegram" /\ ch_last'.ok) =>
          /\ \A u \in tg_pending' : tg_offset' > u
          /\ Confirmed(tg_pending', tg_offset') = {}]_vars

-----------------------------------------------------------------------------
(* Properties of the understanding feedback, checked under SpecPipeline *)

\* C35: when Understanding sets should_interrupt while no task is being
\* processed the field is ignored: the feedback sent for the message is the
\* one sent for should_interrupt = false, and no interrupt question follows.
C35_InterruptIgnoredWithoutCurrentTask ==
    (p_feedback # NoFeedback /\ p_info[p_feedback.task].current = NoTask) =>
        /\ p_feedback = BuildUnderstandingFeedback(p_feedback.task, FALSE)
        /\ RepliesTo(p_feedback.task, "interrupt_confirm") = {}

-----------------------------------------------------------------------------
(* Properties of the queue lock, checked under SpecLock *)

\* C36: to_dict returns whenever no other thread holds the queue lock: a
\* thread inside to_dict never waits for a lock that it holds itself.
C36_ToDictNeverWaitsForItself ==
    \A t \in Threads : ~(th_pc[t] = "to_dict.get_stats" /\ lk_owner = t)

-----------------------------------------------------------------------------
(* Properties of the added task's status, checked under SpecPipeline *)

\* C37: when _process_task has returned for a message, the task the handler
\* added to the State Store for it is completed or failed, on every branch,
\* the confirm branch included.
C37_AddedTaskEndsTerminal ==
    \A t \in TaskIds : p_info[t].returned => st_status[t] \in Terminal

-----------------------------------------------------------------------------
(* Properties of the queue's bookkeeping, checked under SpecQueue *)

\* C38: a task has status "processing" exactly when it occupies the
\* processing slot; when complete or cancel has taken it out of the slot its
\* status is no longer "processing", and after a complete it is still held
\* in the pending queue, the completed list or the failed list.
C38_ProcessingMeansInSlot ==
    [][\A t \in QueueTasks :
          /\ q_status'[t] = "processing" <=> InSlot(q_processing', t)
          /\ (InSlot(q_processing, t) /\ ~InSlot(q_processing', t)
                                      /\ q_status'[t] # q_status[t]) =>
                 (Holds(q_queue', t) \/ Holds(q_completed', t) \/ Holds(q_failed', t))]_vars

\* the number of places in which the queue holds task t
Occurrences(t) ==
    Cardinality({ i \in 1..Len(q_queue) : q_queue[i].id = t })
    + (IF InSlot(q_processing, t) THEN 1 ELSE 0)
    + Cardinality({ i \in 1..Len(q_completed) : q_completed[i].id = t })
    + Cardinality({ i \in 1..Len(q_failed) : q_failed[i].id = t })

\* C39: whatever add, get_next, complete and cancel calls are made, no
\* task_id is held more than once across the pending queue, the processing
\* slot, the completed list and the failed list, and an add of a task_id the
\* queue already holds changes nothing.
C39_NoTaskHeldTwice ==
    [][/\ \A t \in QueueTasks : Occurrences(t)' <= 1
       /\ (q_adds' # q_adds /\ \A t \in QueueTasks : Occurrences(t) >= 1) =>
              UNCHANGED <<q_queue, q_processing, q_completed, q_failed>>]_vars
====
